---- MODULE Spec2Model ----
(***************************************************************************)
(* Air-PollutionApp (src/main.cpp): the WeatherApp window as a state       *)
(* machine.  The user edits the address field, clicks "Pobierz dane"       *)
(* (fetchAirQualityData) or "Wczytaj z pliku" (loadFromFile); the network   *)
(* manager delivers the replies of the outstanding requests, in any order,  *)
(* to handleNetworkReply.                                                   *)
(***************************************************************************)
EXTENDS Integers, Sequences, FiniteSets, Bags, TLC

VARIABLES
    pending,          \* bag of the requests handed to QNetworkAccessManager::get, not yet answered
    currentLocation,  \* QString currentLocation
    currentCountry,   \* QString currentCountry
    parameterStats,   \* QMap<QString, ParameterStats>
    weatherDisplay,   \* lines of the QTextEdit weatherDisplay
    statsDisplay,     \* blocks of the QTextEdit statsDisplay
    charts,           \* QList<QChartView*> charts
    file,             \* content of air_quality_data.json
    msg,              \* the QMessageBox shown by the most recent slot ("none" if none)
    crashed           \* the process has terminated abnormally

vars == <<pending, currentLocation, currentCountry, parameterStats,
          weatherDisplay, statsDisplay, charts, file, msg, crashed>>

(***************************************************************************)
(* Bounds of the model.                                                    *)
(***************************************************************************)
\* most requests outstanding at once (the code itself sets no limit)
MaxPending == 2
\* most values in one parameter's array of the generated series (SeriesBodies)
MaxLen == 2

(***************************************************************************)
(* JSON values, tagged by their type.  An object is a record over all the  *)
(* keys the code looks at; JMissing marks a key the object does not have.  *)
(***************************************************************************)
JMissing == [t |-> "missing"]
JNull == [t |-> "null"]
JStr(s) == [t |-> "string", s |-> s]
\* numbers are rationals n/d in lowest terms
JNum(n) == [t |-> "number", n |-> n, d |-> 1]
JArr(v) == [t |-> "array", v |-> v]
\* a text that json::parse rejects
NotJson == [t |-> "not json"]
\* the file does not exist
NoFile == [t |-> "no file"]

IsString(j) == j.t = "string"
IsNumber(j) == j.t = "number"
IsArray(j) == j.t = "array"
IsObject(j) == j.t = "object"
\* json::contains(key): false for anything that is not an object
Contains(j, key) == IsObject(j) /\ j[key] # JMissing

Params == <<"pm10", "pm2_5", "nitrogen_dioxide">>

(***************************************************************************)
(* QString::trimmed                                                        *)
(***************************************************************************)
IsSpace(c) == c = " "

RECURSIVE DropLeading(_)
DropLeading(s) ==
    IF s = <<>> THEN <<>>
    ELSE IF IsSpace(Head(s)) THEN DropLeading(Tail(s)) ELSE s

RECURSIVE DropTrailing(_)
DropTrailing(s) ==
    IF s = <<>> THEN <<>>
    ELSE IF IsSpace(s[Len(s)]) THEN DropTrailing(SubSeq(s, 1, Len(s) - 1)) ELSE s

trimmedIdentity(s) == s

trimmed(s) == DropTrailing(DropLeading(s))

(***************************************************************************)
(* QString::arg(double): format 'g' with the default precision, that is    *)
(* six significant digits.  Coordinates are fixed-point numbers in units   *)
(* of 10^-5 degree; the result is the value of the decimal string written  *)
(* into the URL, in the same units.                                        *)
(***************************************************************************)
SignificantDigits == 6

Abs(x) == IF x < 0 THEN -x ELSE x

RECURSIVE NumDigits(_)
NumDigits(n) == IF n < 10 THEN 1 ELSE 1 + NumDigits(n \div 10)

RECURSIVE Pow10(_)
Pow10(k) == IF k <= 0 THEN 1 ELSE 10 * Pow10(k - 1)

RoundTo(n, unit) == ((n + unit \div 2) \div unit) * unit

argDouble(x) ==
    LET a == Abs(x)
        d == NumDigits(a)
        r == IF d <= SignificantDigits THEN a ELSE RoundTo(a, Pow10(d - SignificantDigits))
    IN  IF x < 0 THEN -r ELSE r

(***************************************************************************)
(* The inputs: what the user types, what the geocoding and the air-quality *)
(* services answer, and the files the user can pick in the file dialog.    *)
(***************************************************************************)
\* texts of the address field
Addresses == {<<>>, <<" ", " ">>, <<" ", "W", " ">>}

Place(lat, lon, name, country) ==
    [t |-> "object", latitude |-> lat, longitude |-> lon, name |-> name, country |-> country]

\* 52.22977 N 21.01178 E: seven significant digits each
Warszawa == Place(JNum(5222977), JNum(2101178), JStr("Warszawa"), JStr("Polska"))
\* a result without the country field
NoCountry == Place(JNum(5006143), JNum(1993658), JStr("Krakow"), JMissing)
\* a result without the latitude field
NoLatitude == Place(JMissing, JNum(1993658), JStr("Krakow"), JStr("Polska"))

GeoResponse(results) == [t |-> "object", results |-> results]

\* the answers of the geocoding service
GeoBodies ==
    { NotJson, GeoResponse(JMissing), GeoResponse(JArr(<<>>)),
      GeoResponse(JArr(<<Warszawa>>)), GeoResponse(JArr(<<Warszawa, NoCountry>>)),
      GeoResponse(JArr(<<NoCountry>>)), GeoResponse(JArr(<<NoLatitude>>)) }

Hourly(time, pm10, pm2_5, no2) ==
    [t |-> "object", time |-> time, pm10 |-> pm10, pm2_5 |-> pm2_5, nitrogen_dioxide |-> no2]

AirResponse(hourly) == [t |-> "object", hourly |-> hourly]

Nums(v) == JArr([i \in 1..Len(v) |-> JNum(v[i])])

\* all three parameters, two hours
FullA == AirResponse(Hourly(JArr(<<"T1", "T2">>), Nums(<<1, 2>>), Nums(<<2, 2>>), Nums(<<3, 1>>)))
\* pm10 absent, nitrogen_dioxide null
Partial == AirResponse(Hourly(JArr(<<"T1", "T2">>), JMissing, Nums(<<2, 2>>), JNull))
\* no hourly section
NoHourly == AirResponse(JMissing)
\* hourly section without the time array
NoTime == AirResponse(Hourly(JMissing, Nums(<<1, 2>>), Nums(<<2, 2>>), Nums(<<3, 1>>)))
\* an hour of pm2_5 without a reading
NullReading ==
    AirResponse(Hourly(JArr(<<"T1", "T2">>), Nums(<<2, 4>>), JArr(<<JNull, JNum(2)>>), Nums(<<3, 1>>)))
\* further shapes the service can answer with; the undefined behaviour they
\* lead to is modelled in Statistics and createChart
\* pm2_5 has no values at all
EmptySeries == AirResponse(Hourly(JArr(<<"T1", "T2">>), Nums(<<1, 2>>), JArr(<<>>), Nums(<<3, 1>>)))
\* nitrogen_dioxide has more values than there are timestamps
TooLong == AirResponse(Hourly(JArr(<<"T1", "T2">>), Nums(<<1, 2>>), Nums(<<2, 2>>), Nums(<<3, 1, 2>>)))
\* pm10 has fewer values than there are timestamps
TooShort == AirResponse(Hourly(JArr(<<"T1", "T2">>), Nums(<<2>>), Nums(<<2, 2>>), Nums(<<3, 1>>)))

\* the answers of the air-quality service
AirBodies == {NotJson, FullA, Partial, NoHourly, NoTime, NullReading}

Document(location, station, data, statistics) ==
    [t |-> "object", location |-> location, station |-> station,
     air_quality_data |-> data, statistics |-> statistics]

\* files other than the program's own that the user can pick in the dialog
UserFiles ==
    { NotJson,
      Document(JMissing, JStr("Polska"), FullA, JNull),
      Document(JStr("Krakow"), JMissing, FullA, JNull),
      Document(JStr("Krakow"), JStr("Polska"), JMissing, JNull),
      Document(JNull, JStr("Polska"), FullA, JNull),
      Document(JStr("Krakow"), JNum(1), FullA, JNull) }

(***************************************************************************)
(* The message boxes.                                                      *)
(***************************************************************************)
MsgNone == "none"
MsgEmptyAddress == "warning: Wprowadz adres"
MsgNetwork == "critical: Blad sieci"
MsgProcessing == "critical: Blad przetwarzania danych"
MsgSaved == "information: Dane zapisane"
MsgCannotSave == "warning: Nie mozna zapisac pliku"
MsgInvalidFormat == "warning: Nieprawidlowy format pliku JSON"
MsgLoadFailed == "critical: Blad wczytywania pliku"

(***************************************************************************)
(* Doubles: rationals in lowest terms, NaN, or the indeterminate value     *)
(* read through an invalid iterator or index.                              *)
(***************************************************************************)
NaN == [t |-> "nan"]
Garbage == [t |-> "garbage"]

RECURSIVE GCD(_, _)
GCD(a, b) == IF b = 0 THEN a ELSE GCD(b, a % b)

Ratio(n, d) == LET g == GCD(Abs(n), d) IN [t |-> "number", n |-> n \div g, d |-> d \div g]

\* a <= b for rationals
Leq(a, b) == a.n * b.d <= b.n * a.d

\* QString::arg(double, 0, 'f', 1): the number of tenths, rounded
Fixed1(x) ==
    IF x.t = "number" THEN JNum((2 * 10 * x.n + x.d) \div (2 * x.d)) ELSE x

(***************************************************************************)
(* processParameter, createChart, displayAirQualityData                    *)
(***************************************************************************)
ParamSet == {Params[i] : i \in 1..Len(Params)}

Title(param) ==
    CASE param = "pm10" -> "PM10"
      [] param = "pm2_5" -> "PM2.5"
      [] param = "nitrogen_dioxide" -> "NO2"

NoStats == [p \in ParamSet |-> JMissing]

\* json::get<std::vector<double>>() succeeds
IsDoubleVector(j) == IsArray(j) /\ \A i \in 1..Len(j.v) : IsNumber(j.v[i])

\* json::get<std::vector<std::string>>() succeeds (time entries are strings)
IsStringVector(j) == IsArray(j)

RECURSIVE MinOf(_)
MinOf(v) ==
    IF Len(v) = 1 THEN v[1]
    ELSE LET m == MinOf(Tail(v)) IN IF Leq(v[1], m) THEN v[1] ELSE m

RECURSIVE MaxOf(_)
MaxOf(v) ==
    IF Len(v) = 1 THEN v[1]
    ELSE LET m == MaxOf(Tail(v)) IN IF Leq(v[1], m) THEN m ELSE v[1]

RECURSIVE SumOf(_)
SumOf(v) == IF v = <<>> THEN 0 ELSE v[1].n + SumOf(Tail(v))

\* the sum, not divided by the number of values
AverageNotDivided(v) == IF v = <<>> THEN NaN ELSE Ratio(SumOf(v), 1)

\* std::accumulate(...) / values.size(); the readings are whole numbers
Average(v) == IF v = <<>> THEN NaN ELSE Ratio(SumOf(v), Len(v))

\* the outcomes of lines 135-138: dereferencing end() of an empty vector is undefined
Statistics(v) ==
    IF v = <<>>
    THEN {[crash |-> TRUE, stats |-> JMissing],
          [crash |-> FALSE, stats |-> [min |-> Garbage, max |-> Garbage, avg |-> NaN]]}
    ELSE {[crash |-> FALSE, stats |-> [min |-> MinOf(v), max |-> MaxOf(v), avg |-> Average(v)]]}

StatsBlock(param, st) ==
    [title |-> Title(param), min |-> Fixed1(st.min), max |-> Fixed1(st.max), avg |-> Fixed1(st.avg)]

\* the outcomes of createChart: timeData[i] past the end of timeData is undefined
createChart(timeData, values, title, location) ==
    LET point(i) == <<IF i <= Len(timeData) THEN JStr(timeData[i]) ELSE Garbage, values[i]>>
        chart == [title |-> title, location |-> location,
                  points |-> [i \in 1..Len(values) |-> point(i)]]
    IN  IF Len(values) <= Len(timeData)
        THEN {[crash |-> FALSE, chart |-> chart]}
        ELSE {[crash |-> TRUE, chart |-> chart], [crash |-> FALSE, chart |-> chart]}

\* line 130 without the is_null test
IsAbsentKeyOnly(hourly, param) == ~Contains(hourly, param)

\* line 130: the parameter is missing or null
IsAbsent(hourly, param) == ~Contains(hourly, param) \/ hourly[param] = JNull

\* d: [status, parameterStats, statsDisplay, charts]
processParameter(hourly, param, location, d) ==
    IF d.status # "ok" THEN {d}
    ELSE IF IsAbsent(hourly, param) THEN {d}
    ELSE IF ~IsDoubleVector(hourly[param]) THEN {[d EXCEPT !.status = "throw"]}
    ELSE
      LET values == hourly[param].v
          timeData == hourly.time.v
      IN  UNION {
            IF s.crash THEN {[d EXCEPT !.status = "crash"]}
            ELSE LET d1 == [d EXCEPT !.parameterStats[param] = s.stats,
                                     !.statsDisplay = Append(@, StatsBlock(param, s.stats))]
                 IN  { IF c.crash THEN [d1 EXCEPT !.status = "crash"]
                       ELSE [d1 EXCEPT !.charts = Append(@, c.chart)]
                       : c \in createChart(timeData, values, Title(param), location) }
            : s \in Statistics(values) }

LocationLines(location, country) ==
    << <<"Lokalizacja", location>>, <<"Stacja pomiarowa", country>> >>

\* displayAirQualityData without line 110: the charts on display stay
clearChartsKeeps == charts

\* clearCharts, lines 189-195: every chart is deleted and the list is emptied
clearCharts == <<>>

\* the outcomes of displayAirQualityData: [status, parameterStats, weatherDisplay, statsDisplay, charts]
displayAirQualityData(data, location, country, stats) ==
    LET cleared == [status |-> "ok", parameterStats |-> stats, weatherDisplay |-> <<>>,
                    statsDisplay |-> <<>>, charts |-> clearCharts]
    IN  IF ~Contains(data, "hourly") THEN {cleared}
        ELSE IF ~(IsObject(data.hourly) /\ IsStringVector(data.hourly.time))
        THEN {[cleared EXCEPT !.status = "throw"]}
        ELSE
          LET hourly == data.hourly
              s1 == processParameter(hourly, "pm10", location, cleared)
              s2 == UNION {processParameter(hourly, "pm2_5", location, d) : d \in s1}
              s3 == UNION {processParameter(hourly, "nitrogen_dioxide", location, d) : d \in s2}
          IN  { IF d.status = "ok"
                THEN [d EXCEPT !.weatherDisplay = LocationLines(location, country)]
                ELSE d : d \in s3 }

(***************************************************************************)
(* saveToJsonFile                                                          *)
(***************************************************************************)
\* NaN is written as null by json::dump
DumpDouble(x) == IF x = NaN THEN JNull ELSE x

StatsEntry(st) ==
    IF st = JMissing THEN JMissing
    ELSE [t |-> "object", min |-> DumpDouble(st.min), max |-> DumpDouble(st.max),
          avg |-> DumpDouble(st.avg)]

\* the statistics block: one entry per key of parameterStats; null when the map is empty
StatsJson(stats) ==
    IF \A p \in ParamSet : stats[p] = JMissing THEN JNull
    ELSE [t |-> "object",
          pm10 |-> StatsEntry(stats["pm10"]), pm2_5 |-> StatsEntry(stats["pm2_5"]),
          nitrogen_dioxide |-> StatsEntry(stats["nitrogen_dioxide"])]

\* saveToJsonFile without line 201: no station block is written
saveToJsonFileNoStation(data, location, country, stats) ==
    Document(JStr(location), JMissing, data, StatsJson(stats))

saveToJsonFile(data, location, country, stats) ==
    Document(JStr(location), JStr(country), data, StatsJson(stats))

(***************************************************************************)
(* The requests                                                            *)
(***************************************************************************)
GeocodeRequest(address) == [host |-> "geocoding-api", name |-> address]

\* .arg(lon).arg(lat)
AirQualityRequestSwapped(lat, lon) ==
    [host |-> "air-quality", latitude |-> argDouble(lon), longitude |-> argDouble(lat)]

AirQualityRequest(lat, lon) ==
    [host |-> "air-quality", latitude |-> argDouble(lat), longitude |-> argDouble(lon)]

NetworkError == [error |-> TRUE]
Success(body) == [error |-> FALSE, body |-> body]

\* what the network can answer to a request
Replies(req) ==
    {NetworkError} \cup
    {Success(b) : b \in IF req.host = "geocoding-api" THEN GeoBodies ELSE AirBodies}

(***************************************************************************)
(* The window after construction                                           *)
(***************************************************************************)
Init ==
    /\ pending = EmptyBag
    /\ currentLocation = ""
    /\ currentCountry = ""
    /\ parameterStats = NoStats
    /\ weatherDisplay = <<>>
    /\ statsDisplay = <<>>
    /\ charts = <<>>
    /\ file = NoFile
    /\ msg = MsgNone
    /\ crashed = FALSE

\* get called twice for one request
IssueTwice(bag, req) == bag (+) SetToBag({req}) (+) SetToBag({req})

Issue(bag, req) == bag (+) SetToBag({req})
Answered(bag, req) == bag (-) SetToBag({req})
Outstanding == BagCardinality(pending)

session == <<currentLocation, currentCountry, parameterStats>>
panels == <<weatherDisplay, statsDisplay, charts>>

\* slot fetchAirQualityData, lines 34-43; text is the content of addressInput
fetchAirQualityData(text) ==
    /\ ~crashed
    /\ Outstanding < MaxPending
    /\ LET address == trimmed(text)
       IN  IF address = <<>>
           THEN /\ msg' = MsgEmptyAddress
                /\ UNCHANGED pending
           ELSE /\ pending' = Issue(pending, GeocodeRequest(address))
                /\ msg' = MsgNone
    /\ UNCHANGED <<session, panels, file, crashed>>

\* lines 60-75: the geocoding branch of handleNetworkReply
GeocodingReply(response, rest) ==
    IF ~(Contains(response, "results") /\ IsArray(response.results)
         /\ response.results.v # <<>>)
    THEN /\ msg' = MsgNone
         /\ pending' = rest
         /\ UNCHANGED <<session, panels, file, crashed>>
    ELSE
      LET first == response.results.v[1]
      IN  IF ~(IsNumber(first.latitude) /\ IsNumber(first.longitude))
          THEN /\ msg' = MsgProcessing
               /\ pending' = rest
               /\ UNCHANGED <<session, panels, file, crashed>>
          ELSE IF ~IsString(first.name)
          THEN /\ msg' = MsgProcessing
               /\ pending' = rest
               /\ UNCHANGED <<session, panels, file, crashed>>
          ELSE IF ~IsString(first.country)
          THEN /\ msg' = MsgProcessing
               /\ pending' = rest
               /\ currentLocation' = first.name.s
               /\ UNCHANGED <<currentCountry, parameterStats, panels, file, crashed>>
          ELSE /\ currentLocation' = first.name.s
               /\ currentCountry' = first.country.s
               /\ pending' = Issue(rest, AirQualityRequest(first.latitude.n, first.longitude.n))
               /\ msg' = MsgNone
               /\ UNCHANGED <<parameterStats, panels, file, crashed>>

\* installs an outcome of displayAirQualityData
Show(d) ==
    /\ parameterStats' = d.parameterStats
    /\ weatherDisplay' = d.weatherDisplay
    /\ statsDisplay' = d.statsDisplay
    /\ charts' = d.charts

\* lines 77-80: the air-quality branch of handleNetworkReply
AirQualityReply(response, rest, canOpen) ==
    /\ pending' = rest
    /\ \E d \in displayAirQualityData(response, currentLocation, currentCountry, parameterStats) :
         CASE d.status = "crash" ->
                /\ crashed' = TRUE
                /\ Show(d)
                /\ UNCHANGED <<currentLocation, currentCountry, file, msg>>
           [] d.status = "throw" ->
                /\ msg' = MsgProcessing
                /\ Show(d)
                /\ UNCHANGED <<currentLocation, currentCountry, file, crashed>>
           [] d.status = "ok" ->
                /\ Show(d)
                /\ IF canOpen
                   THEN /\ file' = saveToJsonFile(response, currentLocation, currentCountry,
                                                  d.parameterStats)
                        /\ msg' = MsgSaved
                   ELSE /\ msg' = MsgCannotSave
                        /\ UNCHANGED file
                /\ UNCHANGED <<currentLocation, currentCountry, crashed>>

\* lines 47-51 without the return: the empty reply goes on to json::parse, which throws
NetworkFailureFallsThrough(rest) ==
    /\ msg' = MsgProcessing
    /\ pending' = rest
    /\ UNCHANGED <<session, panels, file, crashed>>

\* lines 47-51 sending the failed request again
NetworkFailureRetries(rest) ==
    /\ msg' = MsgNetwork
    /\ pending' = pending
    /\ UNCHANGED <<session, panels, file, crashed>>

\* lines 47-51: the reply reports an error
NetworkFailure(rest) ==
    /\ msg' = MsgNetwork
    /\ pending' = rest
    /\ UNCHANGED <<session, panels, file, crashed>>

\* slot handleNetworkReply, lines 46-84: the reply to the outstanding request req;
\* canOpen: std::ofstream could open air_quality_data.json
handleNetworkReply(req, reply, canOpen) ==
    /\ ~crashed
    /\ BagIn(req, pending)
    /\ LET rest == Answered(pending, req)
       IN  IF reply.error
           THEN NetworkFailure(rest)
           ELSE IF reply.body = NotJson
           THEN /\ msg' = MsgProcessing
                /\ pending' = rest
                /\ UNCHANGED <<session, panels, file, crashed>>
           ELSE IF req.host = "geocoding-api"
           THEN GeocodingReply(reply.body, rest)
           ELSE AirQualityReply(reply.body, rest, canOpen)

\* whether std::ofstream can open the file matters only where saveToJsonFile runs
OpenOutcomes(req, reply) ==
    IF req.host = "air-quality" /\ ~reply.error THEN BOOLEAN ELSE {TRUE}

\* the files the dialog offers; Cancel is the dialog dismissed
Cancel == [t |-> "cancel"]
Choices == {Cancel} \cup UserFiles \cup (IF file = NoFile THEN {} ELSE {file})

\* line 95 without the station test
HasBlocksNoStation(content) ==
    Contains(content, "location") /\ Contains(content, "air_quality_data")

\* line 95: the three top-level blocks
HasBlocks(content) ==
    Contains(content, "location") /\ Contains(content, "station")
    /\ Contains(content, "air_quality_data")

\* loadFromFile asking the geocoding service again for the place of the file
LoadLeavesRefetch(content) ==
    /\ pending' = (IF IsObject(content) THEN Issue(pending, GeocodeRequest(<<"W">>)) ELSE pending)
    /\ UNCHANGED file

\* lines 87-105 hold no networkManager call and no write to a file
LoadLeaves(content) == UNCHANGED <<pending, file>>

\* slot loadFromFile, lines 87-105; content is the text of the file picked
loadFromFile(content) ==
    /\ ~crashed
    /\ content \in Choices
    /\ LoadLeaves(content)
    /\ IF content = Cancel
       THEN /\ msg' = MsgNone
            /\ UNCHANGED <<session, panels, crashed>>
       ELSE IF content = NotJson
       THEN /\ msg' = MsgLoadFailed
            /\ UNCHANGED <<session, panels, crashed>>
       ELSE IF ~HasBlocks(content)
       THEN /\ msg' = MsgInvalidFormat
            /\ UNCHANGED <<session, panels, crashed>>
       ELSE IF ~IsString(content.location)
       THEN /\ msg' = MsgLoadFailed
            /\ UNCHANGED <<session, panels, crashed>>
       ELSE IF ~IsString(content.station)
       THEN /\ msg' = MsgLoadFailed
            /\ currentLocation' = content.location.s
            /\ UNCHANGED <<currentCountry, parameterStats, panels, crashed>>
       ELSE /\ currentLocation' = content.location.s
            /\ currentCountry' = content.station.s
            /\ \E d \in displayAirQualityData(content.air_quality_data, content.location.s,
                                              content.station.s, parameterStats) :
                 /\ Show(d)
                 /\ CASE d.status = "crash" -> crashed' = TRUE /\ UNCHANGED msg
                      [] d.status = "throw" -> msg' = MsgLoadFailed /\ UNCHANGED crashed
                      [] d.status = "ok" -> msg' = MsgNone /\ UNCHANGED crashed

Next ==
    \/ \E text \in Addresses : fetchAirQualityData(text)
    \/ \E req \in BagToSet(pending) :
         \E reply \in Replies(req) :
           \E canOpen \in OpenOutcomes(req, reply) : handleNetworkReply(req, reply, canOpen)
    \/ \E content \in Choices : loadFromFile(content)

Spec == Init /\ [][Next]_vars

(***************************************************************************)
(* The window with a network that answers: the finished signal of every     *)
(* request handed to the network manager is delivered to handleNetworkReply *)
(* by the event loop as long as a request is outstanding.                   *)
(***************************************************************************)
Fetch == \E text \in Addresses : fetchAirQualityData(text)

Reply ==
    \E req \in BagToSet(pending) :
      \E reply \in Replies(req) :
        \E canOpen \in OpenOutcomes(req, reply) : handleNetworkReply(req, reply, canOpen)

SpecLive == Init /\ [][Next]_vars /\ WF_vars(Reply)

(***************************************************************************)
(* The same window with the air-quality service answering every shape of   *)
(* the pm2_5 array up to MaxLen values beside two timestamps, and the user  *)
(* starting a run only when none is in flight.                              *)
(***************************************************************************)
Readings == {JNull, JNum(1), JNum(4)}

RECURSIVE ArraysOf(_)
ArraysOf(n) ==
    IF n = 0 THEN {<<>>}
    ELSE LET shorter == ArraysOf(n - 1)
         IN  shorter \cup {Append(a, r) : a \in {b \in shorter : Len(b) = n - 1}, r \in Readings}

SeriesValues == {JMissing, JNull} \cup {JArr(a) : a \in ArraysOf(MaxLen)}

\* the readings 10, 20, 30 and an hour without a reading
ExampleSeries ==
    AirResponse(Hourly(JArr(<<"T1", "T2", "T3", "T4">>), JMissing,
                       JArr(<<JNum(10), JNum(20), JNum(30), JNull>>), JMissing))

SeriesBodies ==
    {AirResponse(Hourly(JArr(<<"T1", "T2">>), JMissing, x, Nums(<<3, 1>>))) : x \in SeriesValues}
    \cup {ExampleSeries, TooLong, TooShort, NoTime}

SeriesReplies(req) ==
    IF req.host = "geocoding-api"
    THEN {Success(GeoResponse(JArr(<<Warszawa>>)))}
    ELSE {Success(b) : b \in SeriesBodies}

NextSeries ==
    \/ \E text \in Addresses : Outstanding = 0 /\ fetchAirQualityData(text)
    \/ \E req \in BagToSet(pending) :
         \E reply \in SeriesReplies(req) :
           \E canOpen \in OpenOutcomes(req, reply) : handleNetworkReply(req, reply, canOpen)
    \/ file # NoFile /\ loadFromFile(file)

SpecSeries == Init /\ [][NextSeries]_vars

(***************************************************************************)
(* Properties                                                              *)
(***************************************************************************)
IsGeocoding(req) == req.host = "geocoding-api"
IsAirQuality(req) == req.host = "air-quality"
AirOutstanding == \E r \in BagToSet(pending) : IsAirQuality(r)
Blank(text) == \A i \in 1..Len(text) : text[i] = " "
\* a geocoding answer with at least one result
HasResult(body) == Contains(body, "results") /\ IsArray(body.results) /\ body.results.v # <<>>
FirstResult(body) == body.results.v[1]
\* a request that this step handed to the network manager
Issued(r) == CopiesIn(r, pending') > CopiesIn(r, pending)
\* series answers of the expected shape
ValidSeries == {FullA, Partial}
\* the geocoding results a series request can stem from
Resolved == {Warszawa}
RunPlace(req) ==
    CHOOSE p \in Resolved : /\ req.latitude = argDouble(p.latitude.n)
                            /\ req.longitude = argDouble(p.longitude.n)

\* C1: at most one pipeline run is active and at most one network request is
\* outstanding in every reachable state (a request made while a run is in flight is
\* rejected and changes nothing).
C1_AtMostOneRun == Outstanding <= 1

\* C2: a run whose geocoding reply has a result and whose series reply is valid ends
\* with the displayed and the persisted location and station being the name and country
\* of the first geocoding result of that same run, whatever the user and the network
\* did meanwhile.
C2_RunShowsOwnLocation ==
    [][\A req \in BagToSet(pending) : \A body \in ValidSeries : \A canOpen \in BOOLEAN :
         (IsAirQuality(req) /\ handleNetworkReply(req, Success(body), canOpen))
         => /\ weatherDisplay' = LocationLines(RunPlace(req).name.s, RunPlace(req).country.s)
            /\ canOpen => /\ file'.location = RunPlace(req).name
                          /\ file'.station = RunPlace(req).country]_vars

\* C3: loading the file that saveToJsonFile wrote reproduces the document: the
\* location and station of the file, the charts of its series, and statistics equal to
\* the statistics block stored in the file.
C3_RoundTrip ==
    [][(file # NoFile /\ loadFromFile(file))
         => /\ currentLocation' = file.location.s
            /\ currentCountry' = file.station.s
            /\ StatsJson(parameterStats') = file.statistics]_vars

\* C4 as stated: a series request is issued only by the step that handles a geocoding
\* reply with at least one result, and its coordinates are those of the first result.
C4_ExactCoordinates ==
    [][\A r \in BagToSet(pending') :
         (IsAirQuality(r) /\ Issued(r))
         => \E req \in BagToSet(pending) : \E body \in GeoBodies :
              /\ IsGeocoding(req) /\ HasResult(body)
              /\ handleNetworkReply(req, Success(body), TRUE)
              /\ r.latitude = FirstResult(body).latitude.n
              /\ r.longitude = FirstResult(body).longitude.n]_vars

\* C4 amended: a series request is issued only by the step that handles a geocoding
\* reply with at least one result, and its coordinates are those of the first result
\* as QString::arg writes them, rounded to six significant digits.
C4_SeriesAfterGeocoding ==
    [][\A r \in BagToSet(pending') :
         (IsAirQuality(r) /\ Issued(r))
         => \E req \in BagToSet(pending) : \E body \in GeoBodies :
              /\ IsGeocoding(req) /\ HasResult(body)
              /\ handleNetworkReply(req, Success(body), TRUE)
              /\ r.latitude = argDouble(FirstResult(body).latitude.n)
              /\ r.longitude = argDouble(FirstResult(body).longitude.n)]_vars

\* a series request for 52.2298 N 21.0118 E is outstanding: the first result was
\* 52.22977 N 21.01178 E
C4_Witness ==
    BagIn([host |-> "air-quality", latitude |-> 5222980, longitude |-> 2101180], pending)

\* C5: a fetch requested while a series request is outstanding is rejected: it issues
\* no request, and the run in flight goes on undisturbed.
C5_BusyWhileFetching ==
    [][\A text \in Addresses :
         (AirOutstanding /\ ~Blank(text) /\ fetchAirQualityData(text))
         => pending' = pending]_vars

\* C6: a geocoding reply without results is reported as an error (not found) and
\* no series request is issued.
C6_NotFoundReported ==
    [][\A req \in BagToSet(pending) : \A body \in GeoBodies :
         (IsGeocoding(req) /\ body # NotJson /\ ~HasResult(body)
          /\ handleNetworkReply(req, Success(body), TRUE))
         => /\ msg' # MsgNone
            /\ \A r \in BagToSet(pending') : ~Issued(r)]_vars

\* C7: a fetch with an address that is empty after trimming shows the invalid-input
\* warning, issues no request and leaves the session, the panels and the file as
\* they were.
C7_EmptyAddressRejected ==
    [][\A text \in Addresses :
         (Blank(text) /\ fetchAirQualityData(text))
         => /\ msg' = MsgEmptyAddress
            /\ UNCHANGED <<pending, session, panels, file>>]_vars

\* the warning is up while a document is on display
C7_Witness == msg = MsgEmptyAddress /\ charts # <<>>

\* a JSON object that lacks one of the three top-level blocks
LacksBlock(content) ==
    /\ IsObject(content)
    /\ \E k \in {"location", "station", "air_quality_data"} : content[k] = JMissing

\* C8: loading a file that lacks one of location, station and air_quality_data shows
\* the invalid-format warning, which is not the message of a malformed live response,
\* and neither displays nor installs anything of the file.
C8_InvalidFileFormat ==
    [][\A content \in Choices :
         (LacksBlock(content) /\ loadFromFile(content))
         => /\ msg' = MsgInvalidFormat
            /\ msg' # MsgProcessing
            /\ UNCHANGED <<session, panels, file, pending>>]_vars

\* the warning is up while a document is on display
C8_Witness == msg = MsgInvalidFormat /\ charts # <<>>

\* C9: a file is persisted only for a run whose series response passed validation:
\* no persisted file holds a series response without an hourly section.
C9_PersistedOnlyWhenValid ==
    file # NoFile => Contains(file.air_quality_data, "hourly")

\* C10: the session fields and the panels never hold a mixture of two documents: the
\* location on display is the current location, every chart is titled with it, and the
\* statistics map holds exactly the parameters the statistics panel shows.
C10_NoMixture ==
    /\ weatherDisplay # <<>> => weatherDisplay = LocationLines(currentLocation, currentCountry)
    /\ \A i \in 1..Len(charts) : charts[i].location = currentLocation
    /\ \A p \in ParamSet :
         IF parameterStats[p] = JMissing
         THEN \A i \in 1..Len(statsDisplay) : statsDisplay[i].title # Title(p)
         ELSE \E i \in 1..Len(statsDisplay) : statsDisplay[i] = StatsBlock(p, parameterStats[p])

\* the readings of a series that are numbers
PresentValues(j) == SelectSeq(j.v, IsNumber)
\* an array with at least one reading that is a number
HasValues(j) == IsArray(j) /\ PresentValues(j) # <<>>
\* minimum, maximum and arithmetic mean of a non-empty sequence of numbers
Summary(a) == [min |-> MinOf(a), max |-> MaxOf(a), avg |-> Average(a)]
\* a series answer whose hourly section has a timestamp array
WellTimed(body) == Contains(body, "hourly") /\ IsArray(body.hourly.time)
\* the array of param has one value per timestamp
Aligned(hourly, param) == IsArray(hourly[param]) /\ Len(hourly[param].v) = Len(hourly.time.v)

\* C11: the statistics map in memory and the statistics block of the persisted file
\* hold an entry for a parameter only if that parameter has values in the current
\* document's series: in memory the series on the charts, in the file its
\* air_quality_data block.
C11_StatsOnlyForCurrentSeries ==
    /\ ~crashed =>
         \A p \in ParamSet :
           parameterStats[p] # JMissing
           => \E i \in 1..Len(charts) : charts[i].title = Title(p)
    /\ file # NoFile =>
         \A p \in ParamSet :
           Contains(file.statistics, p)
           => /\ Contains(file.air_quality_data, "hourly")
              /\ HasValues(file.air_quality_data.hourly[p])

\* C12: the statistics of a series with at least one present value are the minimum,
\* the maximum and the mean of its present values, the absent (null) ones left out.
C12_AbsentValuesExcluded ==
    [][\A req \in BagToSet(pending) : \A body \in SeriesBodies : \A canOpen \in BOOLEAN :
         (/\ IsAirQuality(req)
          /\ WellTimed(body)
          /\ Aligned(body.hourly, "pm2_5")
          /\ HasValues(body.hourly.pm2_5)
          /\ handleNetworkReply(req, Success(body), canOpen))
         => parameterStats'["pm2_5"] = Summary(PresentValues(body.hourly.pm2_5))]_vars

Summarised(param, blocks) == \E i \in 1..Len(blocks) : blocks[i].title = Title(param)
Charted(param, drawn) == \E i \in 1..Len(drawn) : drawn[i].title = Title(param)
\* the array of param is there, holds numbers only, and one per timestamp
Regular(hourly, param) ==
    /\ IsDoubleVector(hourly[param])
    /\ hourly[param].v # <<>>
    /\ Len(hourly[param].v) = Len(hourly.time.v)
\* the run ended with the document on display (saved, or the file could not be written)
Ready(canOpen) == ~crashed' /\ msg' = (IF canOpen THEN MsgSaved ELSE MsgCannotSave)

\* C14: when the array of one parameter is empty or holds absent values only, that
\* parameter gets no statistics, the statistics of the other parameters of the
\* response are computed, and the run ends with the document on display.
C14_EmptySeriesOmitted ==
    [][\A req \in BagToSet(pending) : \A body \in SeriesBodies : \A canOpen \in BOOLEAN :
         (/\ IsAirQuality(req)
          /\ WellTimed(body)
          /\ IsArray(body.hourly.pm2_5)
          /\ ~HasValues(body.hourly.pm2_5)
          /\ Regular(body.hourly, "nitrogen_dioxide")
          /\ handleNetworkReply(req, Success(body), canOpen))
         => /\ Ready(canOpen)
            /\ ~Summarised("pm2_5", statsDisplay')
            /\ parameterStats'["nitrogen_dioxide"] = Summary(body.hourly.nitrogen_dioxide.v)]_vars

\* C15: a parameter whose key is missing or null does not fail the run: it gets no
\* statistics block and no chart, every other parameter of the response is
\* summarised and charted from its own array, and the run ends with the document on
\* display.
C15_AbsentParameterSkipped ==
    [][\A req \in BagToSet(pending) : \A body \in AirBodies : \A canOpen \in BOOLEAN :
         (/\ IsAirQuality(req)
          /\ WellTimed(body)
          /\ \E p \in ParamSet : body.hourly[p] \in {JMissing, JNull}
          /\ \A p \in ParamSet : body.hourly[p] \in {JMissing, JNull} \/ Regular(body.hourly, p)
          /\ handleNetworkReply(req, Success(body), canOpen))
         => /\ Ready(canOpen)
            /\ \A p \in ParamSet :
                 IF body.hourly[p] \in {JMissing, JNull}
                 THEN ~Summarised(p, statsDisplay') /\ ~Charted(p, charts')
                 ELSE /\ parameterStats'[p] = Summary(body.hourly[p].v)
                      /\ \E i \in 1..Len(statsDisplay') :
                           statsDisplay'[i] = StatsBlock(p, Summary(body.hourly[p].v))
                      /\ \E i \in 1..Len(charts') :
                           /\ charts'[i].title = Title(p)
                           /\ Len(charts'[i].points) = Len(body.hourly[p].v)]_vars

\* a saved document without pm10 and with a null nitrogen_dioxide: PM2.5 alone is
\* summarised and charted
C15_Witness ==
    /\ msg = MsgSaved
    /\ file # NoFile
    /\ Contains(file.air_quality_data, "hourly")
    /\ file.air_quality_data.hourly.pm10 = JMissing
    /\ file.air_quality_data.hourly.nitrogen_dioxide = JNull
    /\ Len(charts) = 1
    /\ Summarised("pm2_5", statsDisplay)
    /\ ~Summarised("nitrogen_dioxide", statsDisplay)

\* a series answer without a timestamp array, or with an array of values that has
\* not one value per timestamp
Misaligned(body) ==
    /\ Contains(body, "hourly")
    /\ \/ ~IsArray(body.hourly.time)
       \/ \E p \in ParamSet : IsArray(body.hourly[p]) /\ ~Aligned(body.hourly, p)

\* C16: a series answer without a timestamp array, or with a value array whose length
\* is not the number of timestamps, is rejected as malformed: the processing error is
\* shown and nothing is summarised or charted from it.
C16_LengthMismatchRejected ==
    [][\A req \in BagToSet(pending) : \A body \in SeriesBodies : \A canOpen \in BOOLEAN :
         (/\ IsAirQuality(req)
          /\ Misaligned(body)
          /\ handleNetworkReply(req, Success(body), canOpen))
         => /\ ~crashed'
            /\ msg' = MsgProcessing
            /\ UNCHANGED parameterStats
            /\ \A i \in 1..Len(charts') :
                 Len(charts'[i].points) = Len(body.hourly.time.v)]_vars

\* the first result of a geocoding answer has the four fields lines 61-64 read
Usable(body) ==
    /\ HasResult(body)
    /\ IsNumber(FirstResult(body).latitude)
    /\ IsNumber(FirstResult(body).longitude)
    /\ IsString(FirstResult(body).name)
    /\ IsString(FirstResult(body).country)

\* a reply that fails its stage: a network error, a body that is not JSON, a geocoding
\* answer without a usable first result, a series answer of another shape than expected
StageFailure(req, reply) ==
    \/ reply.error
    \/ reply.body = NotJson
    \/ IsGeocoding(req) /\ ~Usable(reply.body)
    \/ IsAirQuality(req) /\ reply.body \notin ValidSeries

\* C17: every reply that fails its stage is surfaced: the step that handles it shows an
\* error message.
C17_NoSilentFailure ==
    [][\A req \in BagToSet(pending) : \A reply \in Replies(req) : \A canOpen \in BOOLEAN :
         (StageFailure(req, reply) /\ handleNetworkReply(req, reply, canOpen))
         => msg' \in {MsgNetwork, MsgProcessing}]_vars

\* C18: a reply with a network error, to either request, shows the network error,
\* issues no request, and leaves the session, the panels and the file as they were.
C18_NetworkFailureReported ==
    [][\A req \in BagToSet(pending) : \A canOpen \in BOOLEAN :
         handleNetworkReply(req, NetworkError, canOpen)
         => /\ msg' = MsgNetwork
            /\ \A r \in BagToSet(pending') : ~Issued(r)
            /\ BagCardinality(pending') = BagCardinality(pending) - 1
            /\ UNCHANGED <<session, panels, file>>]_vars

\* the network error is up while a saved document is on display
C18_Witness == msg = MsgNetwork /\ charts # <<>> /\ file # NoFile

\* a file with the three blocks, a location and a station that are strings, and a
\* series of the expected shape
Loadable(content) ==
    /\ HasBlocks(content)
    /\ IsString(content.location)
    /\ IsString(content.station)
    /\ content.air_quality_data \in ValidSeries

\* C19: loadFromFile issues no network request whatever the file holds, and a file
\* that loads leaves the session with the location and the station of the file and
\* the panels with the charts of its series.
C19_LoadIsOffline ==
    [][\A content \in Choices :
         loadFromFile(content)
         => /\ pending' = pending
            /\ Loadable(content)
               => /\ ~crashed'
                  /\ currentLocation' = content.location.s
                  /\ currentCountry' = content.station.s
                  /\ weatherDisplay' = LocationLines(content.location.s, content.station.s)
                  /\ \A p \in ParamSet :
                       LET series == content.air_quality_data.hourly[p]
                       IN  IF series \in {JMissing, JNull} THEN ~Charted(p, charts')
                           ELSE \E i \in 1..Len(charts') :
                                  /\ charts'[i].title = Title(p)
                                  /\ charts'[i].location = content.location.s
                                  /\ Len(charts'[i].points) = Len(series.v)
                                  /\ \A k \in 1..Len(series.v) :
                                       charts'[i].points[k][2] = series.v[k]]_vars

\* the document of the program's own file is on display, with no message, while a
\* request is outstanding
C19_Witness ==
    /\ pending # EmptyBag
    /\ msg = MsgNone
    /\ file # NoFile
    /\ currentLocation = file.location.s
    /\ currentCountry = file.station.s
    /\ weatherDisplay = LocationLines(file.location.s, file.station.s)
    /\ Len(charts) = 3

\* the number of outstanding requests to one host
Requests(bag, host) ==
    LET to == {r \in BagToSet(bag) : r.host = host}
    IN  BagCardinality([r \in to |-> bag[r]])

\* what a step does to the outstanding requests
Sent(host, n) == Requests(pending', host) = Requests(pending, host) + n
Answers(host) == Requests(pending', host) = Requests(pending, host) - 1

\* C20 as stated: a fetch that is not rejected sends one geocoding request; the step
\* that handles a geocoding reply sends one series request when the reply has a
\* result and none otherwise; the step that handles a series reply sends none.
C20_OneSeriesRequestPerResult ==
    [][/\ \A text \in Addresses :
            fetchAirQualityData(text)
            => Sent("geocoding-api", IF Blank(text) THEN 0 ELSE 1) /\ Sent("air-quality", 0)
       /\ \A req \in BagToSet(pending) : \A reply \in Replies(req) :
            (IsGeocoding(req) /\ handleNetworkReply(req, reply, TRUE))
            => /\ Answers("geocoding-api")
               /\ Sent("air-quality", IF ~reply.error /\ HasResult(reply.body) THEN 1 ELSE 0)
       /\ \A req \in BagToSet(pending) :
            (IsAirQuality(req) /\ ~(Answers("air-quality") /\ Sent("geocoding-api", 0)))
            => \A reply \in Replies(req) : \A canOpen \in BOOLEAN :
                 ~handleNetworkReply(req, reply, canOpen)]_vars

\* C20 amended: a fetch that is not rejected sends one geocoding request; the step
\* that handles a geocoding reply sends one series request when the first result of
\* the reply has its latitude, longitude, name and country, and none otherwise; the
\* step that handles a series reply sends none.  So no run sends more than two requests.
C20_RequestsPerRun ==
    [][/\ \A text \in Addresses :
            fetchAirQualityData(text)
            => Sent("geocoding-api", IF Blank(text) THEN 0 ELSE 1) /\ Sent("air-quality", 0)
       /\ \A req \in BagToSet(pending) : \A reply \in Replies(req) :
            (IsGeocoding(req) /\ handleNetworkReply(req, reply, TRUE))
            => /\ Answers("geocoding-api")
               /\ Sent("air-quality", IF ~reply.error /\ Usable(reply.body) THEN 1 ELSE 0)
       /\ \A req \in BagToSet(pending) :
            (IsAirQuality(req) /\ ~(Answers("air-quality") /\ Sent("geocoding-api", 0)))
            => \A reply \in Replies(req) : \A canOpen \in BOOLEAN :
                 ~handleNetworkReply(req, reply, canOpen)]_vars

\* a geocoding reply whose first result has no country was handled: the name is
\* installed, the processing error is up and no request is outstanding
C20_Witness ==
    /\ currentLocation = "Krakow"
    /\ currentCountry = ""
    /\ msg = MsgProcessing
    /\ pending = EmptyBag

\* C21: a load that ends with an error message (a block is missing, the file does not
\* parse, a block has the wrong type) leaves currentLocation, currentCountry, the
\* statistics map and the three panels as they were.
C21_FailedLoadChangesNothing ==
    [][\A content \in Choices :
         (loadFromFile(content) /\ msg' \in {MsgInvalidFormat, MsgLoadFailed})
         => UNCHANGED <<session, panels>>]_vars

\* C22: every file the program wrote has the location, station and air_quality_data
\* blocks, and loading it never ends with the invalid-format warning.
C22_OwnFileAccepted ==
    [][/\ file' # NoFile => HasBlocks(file') /\ ~LacksBlock(file')
       /\ (file # NoFile /\ loadFromFile(file)) => msg' # MsgInvalidFormat]_vars

\* the program's own file, written without an hourly section, has been loaded: the
\* panels are empty and no warning is up
C22_Witness ==
    /\ file # NoFile
    /\ file.air_quality_data = NoHourly
    /\ msg = MsgNone
    /\ charts = <<>>
    /\ weatherDisplay = <<>>
    /\ currentLocation = file.location.s

C24_ChartsOfOneDocument ==
    /\ Len(charts) <= 3
    /\ \A i \in 1..Len(charts) :
         /\ \E p \in ParamSet : charts[i].title = Title(p)
         /\ \A j \in 1..Len(charts) :
              /\ charts[i].title = charts[j].title => i = j
              /\ charts[i].location = charts[j].location
         /\ \E k \in 1..Len(statsDisplay) : statsDisplay[k].title = charts[i].title

\* a document with one series is on display after a document with three: one chart,
\* while the statistics map still has its three entries
C24_Witness ==
    /\ Len(charts) = 1
    /\ \A p \in ParamSet : parameterStats[p] # JMissing

====
